---- MODULE Spec2Model ----
(***************************************************************************)
(* Model of app.py, the local RAG service of lexuz-bot: the module-level   *)
(* index load, cosine_search, strip_unwanted, only_lex_sources and the     *)
(* /ask handler.                                                           *)
(*                                                                         *)
(* Representation.                                                         *)
(*  - Similarities and scores are integers in hundredths (0.22 -> 22);     *)
(*    float addition of a similarity and the boosts is monotone, so the    *)
(*    orderings are those of the code.                                     *)
(*  - A Python str is a sequence of tokens (substrings); startswith is     *)
(*    the prefix relation on tokens, strip removes whitespace tokens at    *)
(*    both ends, lower maps a token to its lower-case form.                *)
(*  - Python indices are 0-based, the sequences here are 1-based.          *)
(*  - A ranked entry (score, m) is [score, idx]: m is the dict object      *)
(*    METAS[idx], which the code passes by reference.                      *)
(***************************************************************************)
EXTENDS Integers, Sequences, FiniteSets, TLC

VARIABLES
    api_key,      \* OPENAI_API_KEY is set in the environment
    e_exists,     \* embeddings.npy exists
    m_exists,     \* meta.jsonl exists
    emb_rows,     \* number of rows of EMB (vectors in embeddings.npy)
    METAS,        \* the records of meta.jsonl, in file order
    phase,        \* "boot" | "aborted" | "serving"
    pc,           \* position of the request being handled
    sims,         \* EMB @ qv of the current query, one value per row of EMB
    top_n,        \* cosine_search's top_n
    ranked,       \* what cosine_search returned
    ranker,       \* "not_run" | "returned" | "raised"
    model_to_use, \* ask's model_to_use
    calls,        \* the external calls made for the request, in order
    failed,       \* which external call failed: "none" | "embeddings" | "chat"
    response,     \* the HTTP response of the request
    picks,        \* only_lex_sources' argument picks
    max_links,    \* only_lex_sources' argument max_links
    urls,         \* only_lex_sources' result
    answer,       \* strip_unwanted's argument
    out           \* strip_unwanted's result

vars == <<api_key, e_exists, m_exists, emb_rows, METAS, phase, pc, sims, top_n,
          ranked, ranker, model_to_use, calls, failed, response, picks,
          max_links, urls, answer, out>>

indexVars == <<api_key, e_exists, m_exists, emb_rows, METAS, phase>>
askVars == <<model_to_use, calls, failed, response>>
srcVars == <<picks, max_links, urls>>
stripVars == <<answer, out>>

----------------------------------------------------------------------------
(* Configuration (the defaults of the env section), scores in hundredths.  *)

TOP_K == 8
MIN_SIM == 22
ESCALATE_SIM == 30
OPENAI_CHAT_MODEL == "gpt-4o-mini"
CHAT_FALLBACK == "gpt-4o"
OPENAI_EMBED_MODEL == "text-embedding-3-large"
BOOST_LEX == 8
BOOST_EDU == 5
BOOST_SRC == 3
OVERFETCH == 4
ASK_MAX_LINKS == 10

(* Bounds of the model.                                                    *)
MaxBase == 2      \* chunks of the index besides the run of one document
MaxDup == 8       \* length of the run of identical chunks of one document
MaxK == 2         \* top_n of a cosine_search call
MaxRows == 2      \* rows of EMB / records of METAS in the service
MaxPicks == 5     \* records given to only_lex_sources
MaxLinks == 2     \* max_links given to only_lex_sources
MaxLen == 5       \* tokens of a text given to strip_unwanted

----------------------------------------------------------------------------
(* Strings.                                                                *)

Max(a, b) == IF a >= b THEN a ELSE b
Min(a, b) == IF a <= b THEN a ELSE b

WS == {" ", "\n"}

\* str.lower() on one token.
Lower(tok) ==
    CASE tok = "Maktab" -> "maktab"
      [] tok = "TTJ" -> "ttj"
      [] tok = "Manbalar" -> "manbalar"
      [] tok = "MANBALAR BO'YICHA" -> "manbalar bo'yicha"
      [] OTHER -> tok

\* str.startswith(p).
StartsWith(s, p) == Len(s) >= Len(p) /\ SubSeq(s, 1, Len(p)) = p

RECURSIVE LStrip(_)
LStrip(s) == IF s # <<>> /\ Head(s) \in WS THEN LStrip(Tail(s)) ELSE s

RECURSIVE RStrip(_)
RStrip(s) ==
    IF s # <<>> /\ s[Len(s)] \in WS THEN RStrip(SubSeq(s, 1, Len(s) - 1)) ELSE s

\* str.strip().
Strip(s) == RStrip(LStrip(s))

HTTPS_LEX == <<"https://", "lex.uz">>
HTTP_LEX == <<"http://", "lex.uz">>

\* u.startswith(("https://lex.uz","http://lex.uz")).
IsLex(u) == StartsWith(u, HTTPS_LEX) \/ StartsWith(u, HTTP_LEX)

\* The list holds "TTJ", "DTM" in upper case, and the text is lower-cased.
EDU_KEYWORDS == {"ta'lim", "maktab", "universitet", "talaba", "TTJ", "DTM"}

\* any(k in s.lower() for k in EDU_KEYWORDS), on tokens.
has_edu_kw(s) == \E i \in 1..Len(s) : Lower(s[i]) \in EDU_KEYWORDS

----------------------------------------------------------------------------
(* cosine_search.                                                          *)

\* order = np.argsort(-sims): the row indices by decreasing similarity; rows
\* of equal similarity keep their index order (numpy sorts a short array by
\* insertion).
RECURSIVE InsertDesc(_, _, _)
InsertDesc(ord, i, s) ==
    IF ord = <<>> THEN <<i>>
    ELSE IF s[Head(ord)] >= s[i]
         THEN <<Head(ord)>> \o InsertDesc(Tail(ord), i, s)
         ELSE <<i>> \o ord

RECURSIVE argsort(_, _)
argsort(s, n) == IF n = 0 THEN <<>> ELSE InsertDesc(argsort(s, n - 1), n, s)

PoolSize_noOverfetch(n) == n

\* max(top_n*4, top_n)
PoolSize(n) == Max(n * OVERFETCH, n)

\* order[: max(top_n*4, top_n)]
Pool(s, n) ==
    LET order == argsort(s, Len(s))
    IN  SubSeq(order, 1, Min(Len(order), PoolSize(n)))

Clears_boosted(sim, boost) == ~(sim + boost < MIN_SIM)

\* if sim < MIN_SIM: continue
Clears(sim, boost) == ~(sim < MIN_SIM)

\* The three additive boosts of a record.
Boost(m) ==
      (IF IsLex(m.doc_url) THEN BOOST_LEX ELSE 0)
    + (IF has_edu_kw(m.chunk_text) \/ has_edu_kw(m.doc_title) THEN BOOST_EDU ELSE 0)
    + (IF m.source_type \in {"parsed_lex", "jsonl"} THEN BOOST_SRC ELSE 0)

\* The first loop: the pool's candidates that clear the threshold, boosted.
RECURSIVE Candidates(_, _, _)
Candidates(pool, metas, s) ==
    IF pool = <<>> THEN <<>>
    ELSE LET idx == Head(pool)
             b == Boost(metas[idx])
             rest == Candidates(Tail(pool), metas, s)
         IN  IF Clears(s[idx], b)
             THEN <<[score |-> s[idx] + b, idx |-> idx]>> \o rest
             ELSE rest

RECURSIVE InsertByScore(_, _)
InsertByScore(sorted, r) ==
    IF sorted = <<>> THEN <<r>>
    ELSE IF Head(sorted).score >= r.score
         THEN <<Head(sorted)>> \o InsertByScore(Tail(sorted), r)
         ELSE <<r>> \o sorted

RECURSIVE SortFrom(_, _)
SortFrom(results, n) ==
    IF n = 0 THEN <<>> ELSE InsertByScore(SortFrom(results, n - 1), results[n])

SortByScore_unsorted(results) == results

\* results.sort(key=lambda x: -x[0]) (a stable sort)
SortByScore(results) == SortFrom(results, Len(results))

\* key = (m.get("doc_url",""), m.get("doc_title",""))
Key(m) == <<m.doc_url, m.doc_title>>

Seen_never(key, seen) == FALSE

\* if key in seen: continue
Seen(key, seen) == key \in seen

\* The second loop: the first occurrence of each key, until top_n are kept.
RECURSIVE Dedup(_, _, _, _, _)
Dedup(results, metas, n, seen, acc) ==
    IF results = <<>> THEN acc
    ELSE LET r == Head(results)
             key == Key(metas[r.idx])
         IN  IF Seen(key, seen)
             THEN Dedup(Tail(results), metas, n, seen, acc)
             ELSE LET acc2 == Append(acc, r)
                  IN  IF Len(acc2) >= n
                      THEN acc2
                      ELSE Dedup(Tail(results), metas, n, seen \cup {key}, acc2)

\* METAS[idx] of a row that has no record raises IndexError.
RaisesIndexError(metas, s, n) ==
    \E k \in 1..Len(Pool(s, n)) : Pool(s, n)[k] > Len(metas)

cosine_search(metas, s, n) ==
    Dedup(SortByScore(Candidates(Pool(s, n), metas, s)), metas, n, {}, <<>>)

----------------------------------------------------------------------------
(* strip_unwanted.                                                         *)

IsManbalar_caseSensitive(tok) == tok = "manbalar"

\* "manbalar" under re.IGNORECASE
IsManbalar(tok) == Lower(tok) = "manbalar"

\* "manbalar bo['’`]?yicha" under re.IGNORECASE: the apostrophe is optional
IsManbalarBoyicha(tok) == Lower(tok) \in {"manbalar bo'yicha", "manbalar boyicha"}

\* s[i..j] is a run of newlines (\n+)
NewlineRun(s, i, j) == i <= j /\ j <= Len(s) /\ \A k \in i..j : s[k] = "\n"

\* r"\n+manbalar bo['’`]?yicha:.*\Z" matches at position i
MatchBoyichaAt(s, i) ==
    \E j \in i..Len(s) :
        /\ NewlineRun(s, i, j)
        /\ j + 2 <= Len(s)
        /\ IsManbalarBoyicha(s[j + 1])
        /\ s[j + 2] = ":"

\* r"\n+manbalar\s*:.*\Z" matches at position i
MatchManbalarAt(s, i) ==
    \E j \in i..Len(s) :
        /\ NewlineRun(s, i, j)
        /\ j + 1 <= Len(s)
        /\ IsManbalar(s[j + 1])
        /\ \E c \in (j + 2)..Len(s) :
              /\ s[c] = ":"
              /\ \A k \in (j + 2)..(c - 1) : s[k] \in WS

\* The least element of a non-empty set of integers.
Least(S) == CHOOSE x \in S : \A y \in S : x <= y

\* re.sub(p, "", s) for a pattern ending in .*\Z under re.DOTALL: the
\* leftmost match runs to the end of the text.
SubBoyicha(s) ==
    LET at == { i \in 1..Len(s) : MatchBoyichaAt(s, i) }
    IN  IF at = {} THEN s ELSE SubSeq(s, 1, Least(at) - 1)

SubManbalar(s) ==
    LET at == { i \in 1..Len(s) : MatchManbalarAt(s, i) }
    IN  IF at = {} THEN s ELSE SubSeq(s, 1, Least(at) - 1)

strip_unwanted(a) == Strip(SubManbalar(SubBoyicha(a)))

----------------------------------------------------------------------------
(* only_lex_sources.                                                       *)

\* u = (m.get("doc_url") or "").strip(); an absent or None doc_url is <<>>.
SourceUrl(m) == Strip(m.doc_url)

SourceSeen_never(u, seen) == FALSE

\* if u in seen: continue
SourceSeen(u, seen) == u \in seen

RECURSIVE SourceLoop(_, _, _, _)
SourceLoop(ps, n, seen, acc) ==
    IF ps = <<>> THEN acc
    ELSE LET u == SourceUrl(Head(ps))
         IN  IF u = <<>> \/ ~IsLex(u) \/ SourceSeen(u, seen)
             THEN SourceLoop(Tail(ps), n, seen, acc)
             ELSE LET acc2 == Append(acc, [title |-> u, url |-> u])
                  IN  IF Len(acc2) >= n
                      THEN acc2
                      ELSE SourceLoop(Tail(ps), n, seen \cup {u}, acc2)

only_lex_sources(ps, n) == SourceLoop(ps, n, {}, <<>>)

----------------------------------------------------------------------------
(* The service: the module-level load, then the /ask handler.              *)

FALLBACK_ANSWER == <<"Chummadim.", " ", "Savolni aniqroq yozib ko'ring.">>

NoResponse == [status |-> 0, answer |-> <<>>, sources |-> <<>>, detail |-> "none"]

FallbackResponse_asError ==
    [status |-> 502, answer |-> <<>>, sources |-> <<>>, detail |-> "LLM xatosi"]

\* return {"answer": "Chummadim. Savolni aniqroq yozib ko'ring.", "sources": []}
FallbackResponse ==
    [status |-> 200, answer |-> FALLBACK_ANSWER, sources |-> <<>>, detail |-> "none"]

\* raise HTTPException(502, f"LLM xatosi: {e}")
LlmErrorResponse ==
    [status |-> 502, answer |-> <<>>, sources |-> <<>>, detail |-> "LLM xatosi"]

\* An exception that leaves ask unhandled: the framework answers 500.
UnhandledResponse ==
    [status |-> 500, answer |-> <<>>, sources |-> <<>>, detail |-> "Internal Server Error"]

\* model_to_use = OPENAI_CHAT_MODEL if best_sim >= ESCALATE_SIM else CHAT_FALLBACK
ModelToUse(best_sim) ==
    IF best_sim >= ESCALATE_SIM THEN OPENAI_CHAT_MODEL ELSE CHAT_FALLBACK

\* client.chat.completions.create(model=OPENAI_CHAT_MODEL, ...)
ChatCall(chosen) == [svc |-> "chat", model |-> OPENAI_CHAT_MODEL]

\* client.embeddings.create(model=OPENAI_EMBED_MODEL, input=[text])
EmbedCall == [svc |-> "embeddings", model |-> OPENAI_EMBED_MODEL]

\* The module-level code up to the index being loaded: SystemExit without
\* the key, without either file, or with an empty array or no record.
Startup ==
    /\ phase = "boot"
    /\ phase' = IF ~api_key THEN "aborted"
                ELSE IF ~e_exists \/ ~m_exists THEN "aborted"
                ELSE IF emb_rows = 0 \/ METAS = <<>> THEN "aborted"
                ELSE "serving"
    /\ UNCHANGED <<api_key, e_exists, m_exists, emb_rows, METAS, pc, sims, top_n,
                   ranked, ranker, askVars, srcVars, stripVars>>

\* POST /ask arrives: ask calls cosine_search, which calls emb_text.
AskBegin ==
    /\ phase = "serving" /\ pc = "idle"
    /\ calls' = Append(calls, EmbedCall)
    /\ pc' = "embed_wait"
    /\ UNCHANGED <<indexVars, sims, top_n, ranked, ranker, model_to_use, failed,
                   response, srcVars, stripVars>>

\* The embeddings call raises: nothing in cosine_search or ask catches it.
EmbedFail ==
    /\ pc = "embed_wait"
    /\ failed' = "embeddings"
    /\ response' = UnhandledResponse
    /\ pc' = "done"
    /\ UNCHANGED <<indexVars, sims, top_n, ranked, ranker, model_to_use, calls,
                   srcVars, stripVars>>

\* The embeddings call returns: the rest of cosine_search, then ask up to
\* its return or to the completion call.
EmbedOk(s) ==
    /\ pc = "embed_wait"
    /\ sims' = s
    /\ IF RaisesIndexError(METAS, s, top_n)
       THEN /\ ranker' = "raised"
            /\ response' = UnhandledResponse
            /\ pc' = "done"
            /\ UNCHANGED <<ranked, model_to_use, calls>>
       ELSE LET rk == cosine_search(METAS, s, top_n)
            IN  /\ ranker' = "returned"
                /\ ranked' = rk
                /\ IF rk = <<>>
                   THEN /\ response' = FallbackResponse
                        /\ pc' = "done"
                        /\ UNCHANGED <<model_to_use, calls>>
                   ELSE /\ model_to_use' = ModelToUse(rk[1].score)
                        /\ calls' = Append(calls, ChatCall(ModelToUse(rk[1].score)))
                        /\ pc' = "chat_wait"
                        /\ UNCHANGED response
    /\ UNCHANGED <<indexVars, top_n, failed, srcVars, stripVars>>

\* The completion call raises: the except clause answers 502.
ChatFail ==
    /\ pc = "chat_wait"
    /\ failed' = "chat"
    /\ response' = LlmErrorResponse
    /\ pc' = "done"
    /\ UNCHANGED <<indexVars, sims, top_n, ranked, ranker, model_to_use, calls,
                   srcVars, stripVars>>

\* The completion call returns text: the answer is stripped twice and the
\* sources are taken from the picks.
ChatOk(text) ==
    /\ pc = "chat_wait"
    /\ response' =
          [status |-> 200,
           answer |-> strip_unwanted(Strip(text)),
           sources |-> only_lex_sources([k \in 1..Len(ranked) |-> METAS[ranked[k].idx]],
                                        ASK_MAX_LINKS),
           detail |-> "none"]
    /\ pc' = "done"
    /\ UNCHANGED <<indexVars, sims, top_n, ranked, ranker, model_to_use, calls,
                   failed, srcVars, stripVars>>

\* The response is sent; the next request starts from nothing.
Return ==
    /\ pc = "done"
    /\ pc' = "idle"
    /\ sims' = <<>> /\ ranked' = <<>> /\ ranker' = "not_run"
    /\ model_to_use' = "none" /\ calls' = <<>> /\ failed' = "none"
    /\ response' = NoResponse
    /\ UNCHANGED <<indexVars, top_n, srcVars, stripVars>>

----------------------------------------------------------------------------
(* Inputs of cosine_search: an index and the similarities of one query.    *)

mA1 == [doc_url |-> HTTPS_LEX \o <<"/docs/1">>, doc_title |-> <<"Qonun">>,
        chunk_text |-> <<"modda">>, source_type |-> "parsed_lex"]
mA2 == [doc_url |-> HTTPS_LEX \o <<"/docs/1">>, doc_title |-> <<"Qonun">>,
        chunk_text |-> <<"Maktab", "modda">>, source_type |-> "parsed_lex"]
mB == [doc_url |-> <<"https://", "example.org", "/a">>, doc_title |-> <<"talaba">>,
       chunk_text |-> <<"TTJ">>, source_type |-> "web"]
mC == [doc_url |-> HTTP_LEX \o <<"/docs/2">>, doc_title |-> <<"Nizom">>,
       chunk_text |-> <<"band">>, source_type |-> "jsonl"]

\* A chunk of the index with its similarity to the query.
ChunkPool ==
    { [m |-> mA1, sim |-> 31], [m |-> mA2, sim |-> 28], [m |-> mB, sim |-> 25],
      [m |-> mB, sim |-> 35], [m |-> mC, sim |-> 20], [m |-> mC, sim |-> 22] }

SeqsUpTo(S, n) == UNION { [1..k -> S] : k \in 0..n }

Repeat(x, n) == [k \in 1..n |-> x]

\* An index: up to MaxBase chunks in any order, and a run of up to MaxDup
\* equal chunks of one document at any position among them.
Indexes ==
    { SubSeq(base, 1, pos) \o Repeat(dup, n) \o SubSeq(base, pos + 1, Len(base)) :
        <<base, dup, n, pos>> \in
            { t \in SeqsUpTo(ChunkPool, MaxBase) \X ChunkPool \X (0..MaxDup) \X (0..MaxBase) :
                t[4] <= Len(t[1]) /\ (t[3] = 0 => t[4] = 0) } }

Idle ==
    /\ model_to_use = "none"
    /\ calls = <<>>
    /\ failed = "none"
    /\ response = NoResponse

NoSources == picks = <<>> /\ max_links = 0 /\ urls = <<>>
NoStrip == answer = <<>> /\ out = <<>>

InitSearch ==
    /\ api_key = TRUE /\ e_exists = TRUE /\ m_exists = TRUE
    /\ phase = "serving"
    /\ \E index \in Indexes :
          /\ METAS = [i \in 1..Len(index) |-> index[i].m]
          /\ sims = [i \in 1..Len(index) |-> index[i].sim]
          /\ emb_rows = Len(index)
    /\ top_n \in 1..MaxK
    /\ pc = "search"
    /\ ranked = <<>>
    /\ ranker = "not_run"
    /\ Idle /\ NoSources /\ NoStrip

\* One call cosine_search(query, top_n), after emb_text returned.
Search ==
    /\ pc = "search"
    /\ ranked' = cosine_search(METAS, sims, top_n)
    /\ ranker' = "returned"
    /\ pc' = "searched"
    /\ UNCHANGED <<indexVars, sims, top_n, askVars, srcVars, stripVars>>

NextSearch == Search

SpecSearch == InitSearch /\ [][NextSearch]_vars

----------------------------------------------------------------------------
(* Properties of cosine_search.                                            *)

Searched == pc = "searched"
KeyOf(i) == Key(METAS[i])
Adjusted(i) == sims[i] + Boost(METAS[i])
\* The rows of the candidate pool whose raw similarity clears the threshold.
ThresholdedPool ==
    { Pool(sims, top_n)[k] : k \in 1..Len(Pool(sims, top_n)) }
        \cap { i \in 1..Len(sims) : sims[i] >= MIN_SIM }
ReturnedKeys == { KeyOf(ranked[k].idx) : k \in 1..Len(ranked) }

\* C1: the list cosine_search returns has at most top_n entries, is sorted
\* in non-increasing order of adjusted score (raw similarity plus boosts),
\* and holds no two entries with the same (doc_url, doc_title).
C1_CappedSortedUnique ==
    Searched =>
        /\ Len(ranked) <= top_n
        /\ \A k \in 1..Len(ranked) : ranked[k].score = Adjusted(ranked[k].idx)
        /\ \A i, j \in 1..Len(ranked) :
              /\ (i < j => ranked[i].score >= ranked[j].score)
              /\ (i # j => KeyOf(ranked[i].idx) # KeyOf(ranked[j].idx))

\* A full list whose order by adjusted score differs from the order by raw
\* similarity, from a pool that held two chunks of one document.
C1_Witness ==
    /\ Searched /\ top_n = 2 /\ Len(ranked) = 2
    /\ sims[ranked[1].idx] < sims[ranked[2].idx]
    /\ ranked[1].score > ranked[2].score
    /\ \E i, j \in ThresholdedPool : i # j /\ KeyOf(i) = KeyOf(j)

\* C5: no returned entry has a raw similarity below MIN_SIM, and when every
\* row's raw similarity is below MIN_SIM the list is empty, whatever the
\* boosts would add.
C5_RawThreshold ==
    Searched =>
        /\ \A k \in 1..Len(ranked) : sims[ranked[k].idx] >= MIN_SIM
        /\ ((\A i \in 1..Len(sims) : sims[i] < MIN_SIM) => ranked = <<>>)

\* Every row is below the threshold, one of them only before its boost.
C5_Witness ==
    /\ Searched /\ ranked = <<>> /\ Len(sims) > 0
    /\ \A i \in 1..Len(sims) : sims[i] < MIN_SIM
    /\ \E i \in 1..Len(sims) : Adjusted(i) >= MIN_SIM

\* The documents with a chunk that clears MIN_SIM, anywhere in the index.
ClearingKeys == { KeyOf(i) : i \in { r \in 1..Len(sims) : sims[r] >= MIN_SIM } }

\* A row that is in the pool under any order of equal similarities: fewer
\* than max(4K, K) other rows are at least as similar.
SurelyPooled(i) ==
    Cardinality({ j \in 1..Len(sims) : j # i /\ sims[j] >= sims[i] })
        < Max(OVERFETCH * top_n, top_n)

PooledClearingKeys ==
    { KeyOf(i) : i \in { r \in 1..Len(sims) : sims[r] >= MIN_SIM /\ SurelyPooled(r) } }

\* C9 as claimed: whenever at least top_n distinct documents of the index
\* have a chunk with raw similarity >= MIN_SIM, exactly top_n results are
\* returned.
C9_Claimed ==
    (Searched /\ Cardinality(ClearingKeys) >= top_n) => Len(ranked) = top_n

\* C9 as amended: whenever at least top_n distinct documents have a chunk
\* with raw similarity >= MIN_SIM among the max(4*top_n, top_n) most similar
\* chunks of the index, exactly top_n results are returned.
C9_ExactlyKFromPool ==
    (Searched /\ Cardinality(PooledClearingKeys) >= top_n) => Len(ranked) = top_n

\* Two chunks of one document rank above another document's chunk, and the
\* list is still full.
C9_Witness ==
    /\ Searched /\ top_n = 2 /\ Len(ranked) = 2
    /\ Cardinality(PooledClearingKeys) >= 2
    /\ \E i, j, k \in ThresholdedPool :
          /\ i # j /\ KeyOf(i) = KeyOf(j) /\ KeyOf(k) # KeyOf(i)
          /\ sims[i] > sims[k] /\ sims[j] > sims[k]

\* C10: each returned score is the greatest adjusted score of its document
\* among the pool's candidates that clear MIN_SIM, and a document of the
\* thresholded pool that is not returned has no adjusted score above the
\* lowest returned score.
C10_KeepsHighest ==
    Searched =>
        /\ \A k \in 1..Len(ranked) :
              /\ ranked[k].idx \in ThresholdedPool
              /\ ranked[k].score = Adjusted(ranked[k].idx)
              /\ \A i \in ThresholdedPool :
                    KeyOf(i) = KeyOf(ranked[k].idx) => Adjusted(i) <= ranked[k].score
        /\ \A i \in ThresholdedPool :
              KeyOf(i) \notin ReturnedKeys =>
                  /\ ranked # <<>>
                  /\ Adjusted(i) <= ranked[Len(ranked)].score

\* The kept chunk of a document has a lower raw similarity than a dropped
\* chunk of the same document, and another document is not returned.
C10_Witness ==
    /\ Searched /\ ranked # <<>>
    /\ \E i \in ThresholdedPool :
          /\ i # ranked[1].idx /\ KeyOf(i) = KeyOf(ranked[1].idx)
          /\ sims[i] > sims[ranked[1].idx] /\ Adjusted(i) < ranked[1].score
    /\ \E i \in ThresholdedPool : KeyOf(i) \notin ReturnedKeys

----------------------------------------------------------------------------
(* only_lex_sources on its own.                                            *)

L1 == HTTPS_LEX \o <<"/docs/1">>
UrlPool ==
    { L1,
      <<" ">> \o L1 \o <<"\n">>,
      HTTP_LEX \o <<"/docs/2">>,
      HTTPS_LEX \o <<".evil.com">>,
      <<"https://", "example.org", "/a">>,
      <<" ">> }

SourceMetas ==
    { [doc_url |-> u, doc_title |-> <<"Qonun">>, chunk_text |-> <<"modda">>,
       source_type |-> "web"] : u \in UrlPool }

NoIndex ==
    /\ api_key = TRUE /\ e_exists = TRUE /\ m_exists = TRUE
    /\ phase = "serving" /\ emb_rows = 0 /\ METAS = <<>>
    /\ sims = <<>> /\ top_n = TOP_K /\ ranked = <<>> /\ ranker = "not_run"

InitSources ==
    /\ NoIndex /\ Idle /\ NoStrip
    /\ picks \in SeqsUpTo(SourceMetas, MaxPicks)
    /\ max_links \in 1..MaxLinks
    /\ urls = <<>>
    /\ pc = "sources"

\* One call only_lex_sources(picks, max_links).
Sources ==
    /\ pc = "sources"
    /\ urls' = only_lex_sources(picks, max_links)
    /\ pc' = "sourced"
    /\ UNCHANGED <<indexVars, sims, top_n, ranked, ranker, askVars, picks,
                   max_links, stripVars>>

NextSources == Sources

SpecSources == InitSources /\ [][NextSources]_vars

\* The position of the first record of picks whose stripped URL is u.
FirstOccurrence(u) == Least({ i \in 1..Len(picks) : Strip(picks[i].doc_url) = u })

\* C6: every citation only_lex_sources returns has a URL that starts with
\* "https://lex.uz" or "http://lex.uz", no two have the same URL, they are
\* in the order in which their URLs first occur in the input, and there are
\* at most max_links of them.
C6_TrustedUniqueOrderedCapped ==
    pc = "sourced" =>
        /\ Len(urls) <= max_links
        /\ \A k \in 1..Len(urls) :
              /\ StartsWith(urls[k].url, <<"https://", "lex.uz">>)
                    \/ StartsWith(urls[k].url, <<"http://", "lex.uz">>)
              /\ \E i \in 1..Len(picks) : Strip(picks[i].doc_url) = urls[k].url
        /\ \A a, b \in 1..Len(urls) :
              /\ (a # b => urls[a].url # urls[b].url)
              /\ (a < b => FirstOccurrence(urls[a].url) < FirstOccurrence(urls[b].url))

\* The input repeats a trusted URL, holds an untrusted one, and holds more
\* distinct trusted URLs than max_links.
C6_Witness ==
    /\ pc = "sourced" /\ max_links = 2 /\ Len(urls) = 2
    /\ \E i, j \in 1..Len(picks) :
          /\ i < j /\ picks[i].doc_url # picks[j].doc_url
          /\ Strip(picks[i].doc_url) = urls[1].url
          /\ Strip(picks[j].doc_url) = urls[1].url
    /\ \E i \in 1..Len(picks) : ~IsLex(Strip(picks[i].doc_url))
    /\ \E i \in 1..Len(picks) :
          /\ IsLex(Strip(picks[i].doc_url))
          /\ \A k \in 1..Len(urls) : urls[k].url # Strip(picks[i].doc_url)

----------------------------------------------------------------------------
(* strip_unwanted on its own.                                              *)

TextAlphabet == {"\n", " ", "x", "Manbalar", "MANBALAR BO'YICHA", ":"}

InitStrip ==
    /\ NoIndex /\ Idle /\ NoSources
    /\ answer \in SeqsUpTo(TextAlphabet, MaxLen)
    /\ out = <<>>
    /\ pc = "strip"

\* One call strip_unwanted(answer).
StripUnwanted ==
    /\ pc = "strip"
    /\ out' = strip_unwanted(answer)
    /\ pc' = "stripped"
    /\ UNCHANGED <<indexVars, sims, top_n, ranked, ranker, askVars, srcVars, answer>>

NextStrip == StripUnwanted

SpecStrip == InitStrip /\ [][NextStrip]_vars

\* Token h of the text starts a sources heading: "Manbalar bo'yicha:" or
\* "Manbalar", optional whitespace, ":", in any letter case.
HeadingAt(t, h) ==
    \/ /\ h + 1 <= Len(t)
       /\ t[h] \in {"MANBALAR BO'YICHA"}
       /\ t[h + 1] = ":"
    \/ /\ t[h] \in {"Manbalar"}
       /\ \E c \in (h + 1)..Len(t) :
             t[c] = ":" /\ \A k \in (h + 1)..(c - 1) : t[k] \in {" ", "\n"}

\* The heading lines of the text: a heading right after a newline.
HeadingLines(t) == { h \in 2..Len(t) : t[h - 1] = "\n" /\ HeadingAt(t, h) }

\* What is left of the text before its first heading line, trimmed.
BeforeFirstHeading(t) == Strip(SubSeq(t, 1, Least(HeadingLines(t)) - 1))

\* C8 as claimed: the block from the first heading line to the end of the
\* text is removed, and a text with no heading line is returned unchanged.
C8_Claimed ==
    pc = "stripped" =>
        IF HeadingLines(answer) = {}
        THEN out = answer
        ELSE out = BeforeFirstHeading(answer)

\* C8 as amended: the block from the first heading line (a heading that
\* follows a newline) to the end of the text is removed, and the result is
\* trimmed of surrounding whitespace; a text with no heading line is
\* returned trimmed, so unchanged only when it has no surrounding whitespace.
C8_StripsHeadingBlockAndTrims ==
    pc = "stripped" =>
        /\ (HeadingLines(answer) = {} => out = Strip(answer))
        /\ (HeadingLines(answer) # {} => out = BeforeFirstHeading(answer))

\* A heading block was removed after a non-empty body.
C8_Witness ==
    /\ pc = "stripped"
    /\ HeadingLines(answer) # {}
    /\ out # <<>>
    /\ Len(out) < Len(answer)
    /\ \E h \in 1..Len(answer) : answer[h] = "Manbalar"

----------------------------------------------------------------------------
(* The service as a whole.                                                 *)

ServiceMetas == {mA1, mB, mC}
ServiceSims == {20, 22, 31}
ChatTexts ==
    { <<"x">>, <<" ", "x", "\n">>, <<"x", "\n", "Manbalar", ":", "x">> }

Init ==
    /\ api_key \in BOOLEAN
    /\ e_exists \in BOOLEAN
    /\ m_exists \in BOOLEAN
    /\ emb_rows \in 0..MaxRows
    /\ METAS \in SeqsUpTo(ServiceMetas, MaxRows)
    /\ (~e_exists => emb_rows = 0)
    /\ (~m_exists => METAS = <<>>)
    /\ phase = "boot"
    /\ pc = "idle"
    /\ sims = <<>>
    /\ top_n = TOP_K
    /\ ranked = <<>>
    /\ ranker = "not_run"
    /\ Idle /\ NoSources /\ NoStrip

Next ==
    \/ Startup
    \/ AskBegin
    \/ EmbedFail
    \/ \E s \in [1..emb_rows -> ServiceSims] : EmbedOk(s)
    \/ ChatFail
    \/ \E text \in ChatTexts : ChatOk(text)
    \/ Return

Spec == Init /\ [][Next]_vars

ChatCalls == SelectSeq(calls, LAMBDA c : c.svc = "chat")
EmbedCalls == SelectSeq(calls, LAMBDA c : c.svc = "embeddings")

\* C2: the completion request goes to CHAT_FALLBACK when the top score of
\* the ranked results is below ESCALATE_SIM, and to OPENAI_CHAT_MODEL
\* otherwise.
C2_Claimed ==
    (pc = "chat_wait" /\ ranked # <<>>) =>
        /\ Len(ChatCalls) = 1
        /\ ChatCalls[1].model =
              (IF ranked[1].score < ESCALATE_SIM THEN CHAT_FALLBACK ELSE OPENAI_CHAT_MODEL)

\* C3: a request whose embedding or completion call failed is answered with
\* the wrapped LLM error (502), and the failed call was made once.
C3_Claimed ==
    (pc = "done" /\ failed # "none") =>
        /\ response.status = 502
        /\ response.detail = "LLM xatosi"
        /\ Len(EmbedCalls) <= 1
        /\ Len(ChatCalls) <= 1

\* C4: the service serves only with both files present, neither empty, and
\* as many embedding rows as metadata records.
C4_Claimed ==
    phase = "serving" =>
        /\ e_exists /\ m_exists
        /\ emb_rows > 0 /\ METAS # <<>>
        /\ emb_rows = Len(METAS)

\* C7: when the ranker returned an empty list, the request is answered with
\* the fixed fallback answer and no sources, as a normal response, and no
\* completion call was made for it.
C7_EmptyRankedFallback ==
    (pc = "done" /\ ranker = "returned" /\ ranked = <<>>) =>
        /\ response.status = 200
        /\ response.answer = <<"Chummadim.", " ", "Savolni aniqroq yozib ko'ring.">>
        /\ response.sources = <<>>
        /\ ChatCalls = <<>>
        /\ failed = "none"

\* The ranker ran over a loaded index and nothing cleared the threshold.
C7_Witness ==
    /\ pc = "done" /\ ranker = "returned" /\ ranked = <<>>
    /\ Len(sims) > 0 /\ Len(EmbedCalls) = 1
    /\ response.status = 200

====
